---- MODULE Spec2Model ----
(***************************************************************************)
(* Model of the Iframely block tool of src/src/index.ts.                   *)
(*                                                                         *)
(* The file holds two variants of the class Iframely: the first (lines     *)
(* 72-276) keeps its data behind a setter/getter pair and re-renders in    *)
(* the setter; the second (lines 347-612) writes _data directly and        *)
(* renders a URL-input form while it has no html.  The variable `variant`  *)
(* says which of the two classes the block is an instance of.              *)
(*                                                                         *)
(* One block instance is modelled together with the part of its            *)
(* environment it interacts with: the DOM nodes its render() creates, the  *)
(* node that currently sits in the document, the host calling the          *)
(* lifecycle hooks, the user editing the caption and submitting the form,  *)
(* and the unfurling service answering the outbound requests.              *)
(***************************************************************************)
EXTENDS Integers, Sequences, FiniteSets, TLC

(***************************************************************************)
(* Bounds of the model.                                                    *)
(***************************************************************************)
\* number of outbound requests the block may issue
MaxFetches == 2

(***************************************************************************)
(* JavaScript values that are not strings.                                 *)
(***************************************************************************)
Undefined == "<undefined>"
Null == "<null>"

\* JS truthiness of a string-or-missing value
Truthy(v) == v \notin {Undefined, Null, ""}

\* the JS expression  v || ''
OrEmpty(v) == IF Truthy(v) THEN v ELSE ""

\* the JS expression  v || null
OrNull(v) == IF Truthy(v) THEN v ELSE Null

(***************************************************************************)
(* URLs the user pastes or types: one that two patterns match, one whose   *)
(* pattern has two capture groups, one that no pattern matches.            *)
(***************************************************************************)
UrlBoth == "https://twitter.com/a/status/12?u=youtu.be/dQw4w9WgXcQ"
UrlFacebook == "https://facebook.com/page/posts/77"
UrlNone == "https://example.com/x"

\* what the host hands to onPaste
Urls == {UrlBoth, UrlNone}

\* what the user may have in the form's input field when submitting
Inputs == {UrlFacebook, "", " "}

\* String.prototype.trim on the inputs above
Trim(s) == IF s = " " THEN "" ELSE s

(***************************************************************************)
(* The provider registry and RegExp.prototype.exec.                        *)
(* A match is the array exec returns: <<whole match, group 1, ...>>;       *)
(* NoMatch stands for null.  The table lists, for the URLs above, the      *)
(* result of running each of the five regular expressions of the source.   *)
(***************************************************************************)
NoMatch == <<>>

RegexExec(regex, url) ==
  CASE regex = "youtube" /\ url = UrlBoth -> <<"youtu.be/dQw4w9WgXcQ", "dQw4w9WgXcQ">>
    [] regex = "twitter" /\ url = UrlBoth -> <<"https://twitter.com/a/status/12", "12">>
    [] regex = "facebook" /\ url = UrlFacebook -> <<UrlFacebook, "page", "77">>
    [] OTHER -> NoMatch

services ==
  << [service |-> "youtube", regex |-> "youtube"],
     [service |-> "instagram", regex |-> "instagram"],
     [service |-> "twitter", regex |-> "twitter"],
     [service |-> "facebook", regex |-> "facebook"],
     [service |-> "tiktok", regex |-> "tiktok"] >>

\* the registry the first variant imports from ./services.js
servicesConfig == services

Registry(v) == IF v = 1 THEN servicesConfig ELSE services

(***************************************************************************)
(* The static members the host reads when it registers the tool.  A map    *)
(* from keys to patterns is the set of its entries; isUndefined marks a    *)
(* member that holds no object at all.                                     *)
(***************************************************************************)
Entry(key, regex) == [key |-> key, regex |-> regex]

PatternMap(isUndefined, entries) == [isUndefined |-> isUndefined, entries |-> entries]

\* the tool configurations a host may pass: none, and one additional service
Configs ==
  { [hasServices |-> FALSE, services |-> <<>>],
    [hasServices |-> TRUE,
     services |-> << [service |-> "vimeo", regex |-> "vimeo"] >>] }

\* static prepare({config}) of the first variant: the static members after it
\* has run; Iframely.patterns is declared and never assigned
Prepare(config) ==
  [services |-> IF config.hasServices THEN config.services ELSE <<>>,
   patterns |-> PatternMap(TRUE, {})]

\* the second variant has no prepare: its static members are as declared
Statics(v, config) ==
  IF v = 1 THEN Prepare(config)
  ELSE [services |-> services, patterns |-> PatternMap(TRUE, {})]

\* static get pasteConfig: the first variant hands out Iframely.patterns, the
\* second an array literal, whose keys are its indices
PasteConfig(v, statics) ==
  IF v = 1
  THEN [patterns |-> statics.patterns]
  ELSE [patterns |->
          PatternMap(FALSE,
                     {Entry("0", "youtube"), Entry("1", "instagram"),
                      Entry("2", "twitter"), Entry("3", "facebook"),
                      Entry("4", "tiktok")})]

RECURSIVE MatchLoopLast(_, _, _)
MatchLoopLast(reg, i, url) ==
  IF i < 1 THEN [provider |-> Null, key |-> Null]
  ELSE LET match == RegexExec(reg[i].regex, url) IN
       IF match # NoMatch
       THEN [provider |-> reg[i].service, key |-> OrNull(match[2])]
       ELSE MatchLoopLast(reg, i - 1, url)

\* the for-loop of onPaste / onSubmit from entry i on
RECURSIVE MatchLoop(_, _, _)
MatchLoop(reg, i, url) ==
  IF i > Len(reg) THEN [provider |-> Null, key |-> Null]
  ELSE LET match == RegexExec(reg[i].regex, url) IN
       IF match # NoMatch
       THEN [provider |-> reg[i].service, key |-> OrNull(match[2])]
       ELSE MatchLoop(reg, i + 1, url)

MatchLast(reg, url) == MatchLoopLast(reg, Len(reg), url)

Match(reg, url) == MatchLoop(reg, 1, url)

(***************************************************************************)
(* Markup.                                                                 *)
(***************************************************************************)
CaptionRaw == "Tom & Jerry"
CaptionTyped == "nice"

\* reading innerHTML back after assigning s to it: the parser's
\* serialisation of s (a bare ampersand comes back as an entity)
InnerHTML(s) == IF s = CaptionRaw THEN "Tom &amp; Jerry" ELSE s

HtmlOk == "<div>ok</div>"
HtmlB == "<p>b</p><script></script>"

\* template.content.firstChild || document.createElement('div')
FirstChild(html) ==
  CASE html = HtmlOk -> "<div>ok</div>"
    [] html = HtmlB -> "<p>b</p>"
    [] OTHER -> "<div></div>"

(***************************************************************************)
(* Answers of the unfurling service.  status 0 is a request that never got *)
(* a response (fetch rejects).                                             *)
(***************************************************************************)
BodyNotJson == "<html>Bad Gateway</html>"
BodyNull == "null"
BodyNoHtml == "{}"
BodyEmptyHtml == "{html:''}"
BodyB == "{html:'<p>b</p><script></script>'}"

NetworkError == [status |-> 0, body |-> ""]
NoResp == [status |-> -1, body |-> ""]

Responses ==
  {NetworkError}
    \cup [status : {200}, body : {BodyNull, BodyNoHtml, BodyEmptyHtml, BodyB}]
    \cup [status : {500}, body : {BodyNotJson, BodyB}]

\* resp.json(): a throw for a body that is not JSON, else the parsed value
\* (isNull for the JSON value null, html for the html member of an object)
Json(body) ==
  CASE body = BodyNotJson -> [throws |-> TRUE, isNull |-> FALSE, html |-> Undefined]
    [] body = BodyNull -> [throws |-> FALSE, isNull |-> TRUE, html |-> Undefined]
    [] body = BodyNoHtml -> [throws |-> FALSE, isNull |-> FALSE, html |-> Undefined]
    [] body = BodyEmptyHtml -> [throws |-> FALSE, isNull |-> FALSE, html |-> ""]
    [] body = BodyB -> [throws |-> FALSE, isNull |-> FALSE, html |-> HtmlB]

(***************************************************************************)
(* IframelyData.                                                           *)
(***************************************************************************)
Fields == {"caption", "html", "key", "provider", "url"}

NormalizeDataDropsCaption(data) ==
  [caption |-> "",
   html |-> OrEmpty(data.html),
   key |-> OrEmpty(data.key),
   provider |-> OrEmpty(data.provider),
   url |-> OrEmpty(data.url)]

\* the object literal of the constructor / the data setter
NormalizeData(data) ==
  [caption |-> OrEmpty(data.caption),
   html |-> OrEmpty(data.html),
   key |-> OrEmpty(data.key),
   provider |-> OrEmpty(data.provider),
   url |-> OrEmpty(data.url)]

FetchedDataNoUrl(html, key, provider, url) ==
  [caption |-> "",
   html |-> html,
   key |-> OrEmpty(key),
   provider |-> OrEmpty(provider),
   url |-> ""]

\* the object literal handleIframelyFetch commits
FetchedData(html, key, provider, url) ==
  [caption |-> "",
   html |-> html,
   key |-> OrEmpty(key),
   provider |-> OrEmpty(provider),
   url |-> url]

\* {} : a block the user has just inserted
DataNew ==
  [typeof |-> "object", caption |-> Undefined, html |-> Undefined,
   key |-> Undefined, provider |-> Undefined, url |-> Undefined]

\* data a host restores from a stored document
DataSaved ==
  [typeof |-> "object", caption |-> CaptionRaw, html |-> HtmlOk,
   key |-> "page", provider |-> "facebook", url |-> UrlFacebook]

\* a primitive: reading any property of it gives undefined
NotAnObject ==
  [typeof |-> "string", caption |-> Undefined, html |-> Undefined,
   key |-> Undefined, provider |-> Undefined, url |-> Undefined]

\* undefined or null in the place of data: reading a property of it throws
Nothing ==
  [typeof |-> "undefined", caption |-> Undefined, html |-> Undefined,
   key |-> Undefined, provider |-> Undefined, url |-> Undefined]

\* data instanceof Object
IsObject(data) == data.typeof = "object"

\* what a host may hand to the constructor
ConstructorData == {DataNew, DataSaved, NotAnObject, Nothing}

AssignedData == {DataSaved, NotAnObject}

(***************************************************************************)
(* DOM roots created by render().  A root lives in one of the slots        *)
(* NodeIds; a root no reference leads to any more (it is not in the        *)
(* document, it is not this.element and no pending onSubmit closure holds  *)
(* it) is garbage and its slot is Free again.                              *)
(***************************************************************************)
NodeIds == 1..(MaxFetches + 2)

ErrNone == ""
ErrNoEmbed == "no embed code for this link"
ErrException == "error: exception"

Free ==
  [kind |-> "free", content |-> "", caption |-> "",
   input |-> "", error |-> ErrNone, disabled |-> FALSE]

\* container with the embedded markup and the caption
EmbedNode(content, caption) ==
  [kind |-> "embed", content |-> content, caption |-> caption,
   input |-> "", error |-> ErrNone, disabled |-> FALSE]

\* container with the URL input, the button and the error line; input is
\* the value render() puts into the field
FormNode(value) ==
  [kind |-> "form", content |-> "", caption |-> "",
   input |-> value, error |-> ErrNone, disabled |-> FALSE]

\* document.createElement: a slot not in use
Alloc(ns) == CHOOSE n \in NodeIds : ns[n] = Free /\ \A m \in 1..(n - 1) : ns[m] # Free

\* the roots still referenced
Collect(ns, roots) == [n \in NodeIds |-> IF n \in roots THEN ns[n] ELSE Free]

NoData == [f \in Fields |-> ""]

NoRequest ==
  [id |-> 0, url |-> "", provider |-> Null, key |-> Null,
   origin |-> "", container |-> 0]

NoCommit == [id |-> 0, url |-> "", html |-> "", origin |-> ""]

VARIABLES
  variant,    \* which of the two classes of the file the block instantiates
  _data,      \* this._data
  element,    \* this.element: 0 for null, else a slot of nodes
  nodes,      \* the roots render() has created, by slot
  mounted,    \* the root that sits in the document: 0 for none
  inflight,   \* the outbound requests that have not resolved yet
  issued,     \* number of outbound requests issued so far
  newest,     \* of the requests that succeeded since the last data
              \* assignment, the one issued last
  lastOp      \* the operation that ran last and what it handed back

vars == <<variant, _data, element, nodes, mounted, inflight, issued, newest, lastOp>>

\* op: the operation; resp: the answer a resumed request got; threw: an
\* exception (or a rejected promise nobody handles) reached the host; out:
\* the root render() returned; ret: the object save() returned; again: the
\* operation before it was a render() too; arg: the type of the data handed
\* to an operation that takes data; url: the URL onPaste was handed or
\* onSubmit read from the input field and trimmed
Op(op, resp, threw, out, ret) ==
  [op |-> op, resp |-> resp, threw |-> threw, out |-> out, ret |-> ret,
   again |-> FALSE, arg |-> "", url |-> ""]

(***************************************************************************)
(* render().  The result lists the fields render() leaves behind and the   *)
(* root it returns (out).                                                  *)
(***************************************************************************)
Rendered(data, el, ns, out) ==
  [data |-> data, element |-> el, nodes |-> ns, out |-> out]

\* get data() of the first variant: the caption of this.element is read
\* back into _data
GetData(data, el, ns) ==
  IF el # 0 THEN [data EXCEPT !.caption = ns[el].caption] ELSE data

\* render() of the first variant
Render1(data, el, ns) ==
  LET d == GetData(data, el, ns)
      container == EmbedNode(FirstChild(OrEmpty(d.html)), InnerHTML(OrEmpty(d.caption)))
      n == Alloc(ns)
  IN Rendered(d, n, [ns EXCEPT ![n] = container], n)

Render2Clears(data, el, ns) ==
  LET n == Alloc(ns)
  IN IF ~Truthy(data.html)
     THEN Rendered(data, el, [ns EXCEPT ![n] = FormNode(OrEmpty(data.url))], n)
     ELSE LET container == EmbedNode(FirstChild(OrEmpty(data.html)),
                                     InnerHTML(OrEmpty(data.caption)))
          IN Rendered([data EXCEPT !.caption = ""], n, [ns EXCEPT ![n] = container], n)

\* render() of the second variant
Render2(data, el, ns) ==
  LET n == Alloc(ns)
  IN IF ~Truthy(data.html)
     THEN Rendered(data, el, [ns EXCEPT ![n] = FormNode(OrEmpty(data.url))], n)
     ELSE LET container == EmbedNode(FirstChild(OrEmpty(data.html)),
                                     InnerHTML(OrEmpty(data.caption)))
          IN Rendered(data, n, [ns EXCEPT ![n] = container], n)

RenderOf(v, data, el, ns) ==
  IF v = 1 THEN Render1(data, el, ns) ELSE Render2(data, el, ns)

(***************************************************************************)
(* set data(data) of the first variant.  The result lists the block's      *)
(* fields and the document afterwards, and whether the setter threw.       *)
(***************************************************************************)
Assigned(data, el, ns, mt, threw) ==
  [data |-> data, element |-> el, nodes |-> ns, mounted |-> mt, threw |-> threw]

SetData(cur, data, el, ns, mt) ==
  IF ~IsObject(data)
  THEN Assigned(cur, el, ns, mt, TRUE)
  ELSE LET d == NormalizeData(data)
           oldView == el
       IN IF oldView # 0 /\ oldView = mt
          THEN LET r == Render1(d, el, ns)
               IN Assigned(r.data, r.element, r.nodes, r.out, FALSE)
          ELSE Assigned(d, el, ns, mt, FALSE)

(***************************************************************************)
(* handleIframelyFetch from `await fetch` on, for the request f answered   *)
(* with resp.  escaped says whether an exception left the function.        *)
(***************************************************************************)
Fetched(data, el, ns, mt, escaped) ==
  [data |-> data, element |-> el, nodes |-> ns, mounted |-> mt, escaped |-> escaped]

\* the response carries a payload the code commits
HasHtml(resp) ==
  /\ resp.status > 0
  /\ ~Json(resp.body).throws
  /\ ~Json(resp.body).isNull
  /\ Truthy(Json(resp.body).html)

\* the request succeeded: a 2xx response whose payload carries html
Succeeded(resp) == resp.status \in 200..299 /\ HasHtml(resp)

TryCoversFetchOnly(stmt) == stmt \in {"fetch", "commit"}

\* which statements the try block encloses
TryCovers(stmt) == stmt \in {"fetch", "json", "commit"}

HandleIframelyFetch(v, cur, el, ns, mt, f, resp) ==
  IF resp.status = 0
  THEN Fetched(cur, el, ns, mt, ~TryCovers("fetch"))
  ELSE IF Json(resp.body).throws
  THEN Fetched(cur, el, ns, mt, ~TryCovers("json"))
  ELSE IF HasHtml(resp)
  THEN LET d == FetchedData(Json(resp.body).html, f.key, f.provider, f.url)
       IN IF v = 1
          THEN LET a == SetData(cur, [typeof |-> "object"] @@ d, el, ns, mt)
               IN Fetched(a.data, a.element, a.nodes, a.mounted,
                          a.threw /\ ~TryCovers("commit"))
          ELSE Fetched(d, el, ns, mt, FALSE)
  ELSE Fetched(cur, el, ns, mt, FALSE)

ReissuedOnFailure(f, resp, id) ==
  IF HasHtml(resp) THEN {} ELSE {[f EXCEPT !.id = id]}

\* the requests handleIframelyFetch issues after the answer resp to its
\* request f: the else branch and the catch block only write to the console
Reissued(f, resp, id) == {}

(***************************************************************************)
(* onSubmit of the second variant from `await this.handleIframelyFetch`    *)
(* on; h is what handleIframelyFetch left behind, c the form the handler   *)
(* belongs to.                                                             *)
(***************************************************************************)
OnSubmitResume(h, c) ==
  IF h.escaped
  THEN [h EXCEPT !.nodes[c].error = ErrException,
                 !.nodes[c].disabled = FALSE,
                 !.escaped = FALSE]
  ELSE IF Truthy(h.data.html)
  THEN LET r == Render2(h.data, h.element, h.nodes)
       IN Fetched(r.data, r.element,
                  [r.nodes EXCEPT ![c].disabled = FALSE],
                  IF h.mounted = c THEN r.out ELSE h.mounted,
                  FALSE)
  ELSE [h EXCEPT !.nodes[c].error = ErrNoEmbed,
                 !.nodes[c].disabled = FALSE]

(***************************************************************************)
(* constructor({data}).  The first variant hands data to its setter, the   *)
(* second reads the five properties of data itself.                        *)
(***************************************************************************)
Constructed(data, threw) == [data |-> data, threw |-> threw]

Constructor(v, data, ns) ==
  IF v = 1
  THEN LET a == SetData(NoData, data, 0, ns, 0) IN Constructed(a.data, a.threw)
  ELSE IF data.typeof = "undefined"
       THEN Constructed(NoData, TRUE)
       ELSE Constructed(NormalizeData(data), FALSE)

(***************************************************************************)
(* Initial state: the block as the constructor leaves it.  A constructor   *)
(* that throws leaves no block.                                            *)
(***************************************************************************)
Init ==
  /\ variant \in {1, 2}
  /\ nodes = [n \in NodeIds |-> Free]
  /\ \E data \in ConstructorData :
       LET c == Constructor(variant, data, nodes)
       IN /\ ~c.threw
          /\ _data = c.data
          /\ lastOp = [Op("construct", NoResp, FALSE, 0, NoData)
                         EXCEPT !.arg = data.typeof]
  /\ element = 0
  /\ mounted = 0
  /\ inflight = {}
  /\ issued = 0
  /\ newest = NoCommit

\* the roots something still refers to
Roots(mt, el, reqs) == ({mt, el} \cup {f.container : f \in reqs}) \ {0}

(***************************************************************************)
(* The host calls render() and puts the returned root into the block's     *)
(* holder in place of the previous one.                                    *)
(***************************************************************************)
Render ==
  LET r == RenderOf(variant, _data, element, nodes)
  IN /\ _data' = r.data
     /\ element' = r.element
     /\ mounted' = r.out
     /\ nodes' = Collect(r.nodes, Roots(mounted', element', inflight))
     /\ lastOp' = [Op("render", NoResp, FALSE, r.out, NoData)
                     EXCEPT !.again = (lastOp.op = "render")]
     /\ UNCHANGED <<variant, inflight, issued, newest>>

(***************************************************************************)
(* The user edits the caption of the view in the document.                 *)
(***************************************************************************)
EditCaption ==
  /\ mounted # 0
  /\ nodes[mounted].kind = "embed"
  /\ \E c \in {CaptionTyped} :
       /\ nodes[mounted].caption # c
       /\ nodes' = [nodes EXCEPT ![mounted].caption = c]
  /\ lastOp' = Op("edit", NoResp, FALSE, 0, NoData)
  /\ UNCHANGED <<variant, _data, element, mounted, inflight, issued, newest>>

\* the request handleIframelyFetch issues before it suspends
Request(id, url, m, origin, c) ==
  [id |-> id, url |-> url, provider |-> m.provider, key |-> m.key,
   origin |-> origin, container |-> c]

(***************************************************************************)
(* The host calls onPaste with a pasted URL.                               *)
(***************************************************************************)
OnPaste ==
  /\ issued < MaxFetches
  /\ \E url \in Urls :
       LET req == Request(issued + 1, url, Match(Registry(variant), url), "paste", 0)
       IN /\ inflight' = inflight \cup {req}
          /\ issued' = issued + 1
          /\ lastOp' = [Op("paste", NoResp, FALSE, 0, NoData) EXCEPT !.url = url]
  /\ UNCHANGED <<variant, _data, element, nodes, mounted, newest>>

(***************************************************************************)
(* onSubmit of the second variant up to its await, run for the form in the *)
(* document with the text `typed` in its input field.                      *)
(***************************************************************************)
OnSubmit(typed) ==
  LET c == mounted
      url == Trim(typed)
  IN IF url = ""
     THEN /\ lastOp' = Op("submit", NoResp, FALSE, 0, NoData)
          /\ UNCHANGED <<variant, _data, element, nodes, mounted, inflight, issued, newest>>
     ELSE /\ issued < MaxFetches
          /\ nodes' = [nodes EXCEPT ![c].error = ErrNone, ![c].disabled = TRUE]
          /\ LET req == Request(issued + 1, url, Match(services, url), "submit", c)
             IN /\ inflight' = inflight \cup {req}
                /\ issued' = issued + 1
                /\ lastOp' = [Op("submit", NoResp, FALSE, 0, NoData)
                                EXCEPT !.url = url]
          /\ UNCHANGED <<variant, _data, element, mounted, newest>>

\* the user clicks the form's button
SubmitClick ==
  /\ variant = 2
  /\ mounted # 0
  /\ nodes[mounted].kind = "form"
  /\ ~nodes[mounted].disabled
  /\ \E typed \in Inputs : OnSubmit(typed)

\* the user presses Enter in the form's input field
SubmitEnter ==
  /\ variant = 2
  /\ mounted # 0
  /\ nodes[mounted].kind = "form"
  /\ \E typed \in Inputs : OnSubmit(typed)

(***************************************************************************)
(* The unfurling service answers a request (or the request fails) and the  *)
(* code waiting for it runs to its end.                                    *)
(***************************************************************************)
FetchResolve ==
  \E f \in inflight, resp \in Responses :
    LET h == HandleIframelyFetch(variant, _data, element, nodes, mounted, f, resp)
        g == IF f.origin = "submit" THEN OnSubmitResume(h, f.container) ELSE h
    IN /\ _data' = g.data
       /\ element' = g.element
       /\ mounted' = g.mounted
       /\ inflight' = (inflight \ {f}) \cup Reissued(f, resp, issued + 1)
       /\ issued' = issued + Cardinality(Reissued(f, resp, issued + 1))
       /\ nodes' = Collect(g.nodes, Roots(mounted', element', inflight'))
       /\ newest' = IF Succeeded(resp) /\ f.id > newest.id
                    THEN [id |-> f.id, url |-> f.url,
                          html |-> Json(resp.body).html, origin |-> f.origin]
                    ELSE newest
       /\ lastOp' = Op("resolve", resp, g.escaped, 0, NoData)
       /\ UNCHANGED variant

(***************************************************************************)
(* The host assigns to the block's data (first variant: the setter).       *)
(***************************************************************************)
AssignData ==
  /\ variant = 1
  /\ \E data \in AssignedData :
       LET a == SetData(_data, data, element, nodes, mounted)
       IN /\ _data' = a.data
          /\ element' = a.element
          /\ mounted' = a.mounted
          /\ nodes' = Collect(a.nodes, Roots(mounted', element', inflight))
          /\ newest' = IF a.threw THEN newest ELSE NoCommit
          /\ lastOp' = [Op("assign", NoResp, a.threw, 0, NoData)
                          EXCEPT !.arg = data.typeof]
  /\ UNCHANGED <<variant, inflight, issued>>

(***************************************************************************)
(* The host calls save().                                                  *)
(***************************************************************************)
SaveData(data, el, ns) ==
  IF el # 0 THEN [data EXCEPT !.caption = ns[el].caption] ELSE data

SaveReturn(data) ==
  [caption |-> data.caption, html |-> data.html, key |-> data.key,
   provider |-> data.provider, url |-> data.url]

Save ==
  /\ _data' = SaveData(_data, element, nodes)
  /\ lastOp' = Op("save", NoResp, FALSE, 0, SaveReturn(_data'))
  /\ UNCHANGED <<variant, element, nodes, mounted, inflight, issued, newest>>

(***************************************************************************)
(* validate(data).  Neither class declares a validate member, so the       *)
(* lookup on an instance gives undefined and calling it throws a           *)
(* TypeError; every provider of either class is served by the remote       *)
(* fetch of handleIframelyFetch.                                           *)
(***************************************************************************)
Validated(threw, ret) == [threw |-> threw, ret |-> ret]

Validate(v, data) == Validated(TRUE, FALSE)

Next ==
  \/ Render
  \/ EditCaption
  \/ OnPaste
  \/ SubmitClick
  \/ SubmitEnter
  \/ FetchResolve
  \/ AssignData
  \/ Save

Spec == Init /\ [][Next]_vars

TypeOK ==
  /\ variant \in {1, 2}
  /\ DOMAIN _data = Fields
  /\ element \in {0} \cup NodeIds
  /\ mounted \in {0} \cup NodeIds
  /\ \A n \in NodeIds : nodes[n] # Free <=> n \in Roots(mounted, element, inflight)
  /\ \E n \in NodeIds : nodes[n] = Free
  /\ issued \in 0..MaxFetches
  /\ Cardinality(inflight) <= issued

(***************************************************************************)
(* Properties.                                                             *)
(***************************************************************************)
\* the view in the document shows the markup html
ViewShows(html) ==
  /\ nodes[mounted].kind = "embed"
  /\ nodes[mounted].content = FirstChild(html)

\* C1: when paste B was issued after paste A and all requests have resolved,
\* B's having succeeded, the block's data carry the url and html of B and the
\* view in the document shows B's html
C1_StaleFetchDiscarded ==
  (/\ inflight = {}
   /\ issued >= 2
   /\ newest.id = issued
   /\ newest.origin = "paste")
  => /\ _data.url = newest.url
     /\ _data.html = newest.html
     /\ mounted # 0 => ViewShows(newest.html)

\* the request did not succeed: no response, a non-2xx response, or a
\* payload without html
Failed(resp) == ~Succeeded(resp)

\* C2: after a request has failed the block's html is a non-empty error
\* placeholder
C2_FailureCommitsErrorState ==
  (lastOp.op = "resolve" /\ Failed(lastOp.resp)) => _data.html # ""

C4_HtmlCommitted ==
  [][\A f \in inflight :
       (f \notin inflight' /\ HasHtml(lastOp'.resp))
       => /\ _data'.html = Json(lastOp'.resp.body).html
          /\ _data'.url = f.url]_vars

C4_Witness ==
  /\ lastOp.op = "resolve"
  /\ HasHtml(lastOp.resp)
  /\ inflight = {}
  /\ _data.html = HtmlB
  /\ _data.url = UrlBoth

\* C5: at most one outbound request of the block is pending at any moment
C5_OneFetchInFlight == Cardinality(inflight) <= 1

\* C6: the view in the document shows the block's current data: the embedded
\* markup of its html, or the URL form while it has no html
C6_ViewShowsData ==
  mounted # 0
  => \/ ViewShows(_data.html)
     \/ nodes[mounted].kind = "form" /\ ~Truthy(_data.html)

\* C7: while a pasted request is pending the view in the document is the
\* loading view with the pasted URL
C7_LoadingWhilePending ==
  \A f \in inflight :
    (f.origin = "paste" /\ mounted # 0)
    => /\ nodes[mounted].kind = "loading"
       /\ nodes[mounted].content = f.url

\* the entries of the registry whose pattern matches url
Hits(reg, url) == {i \in 1..Len(reg) : RegexExec(reg[i].regex, url) # NoMatch}

\* the least element of a non-empty set of numbers
Least(S) == CHOOSE i \in S : \A j \in S : i <= j

\* C8: a request carries the service of the first registry entry whose
\* pattern matches its URL and capture group 1 of that match, and carries
\* neither when no pattern matches
C8_FirstMatchWins ==
  \A f \in inflight :
    LET reg == IF f.origin = "paste" THEN Registry(variant) ELSE services
        hits == Hits(reg, f.url)
    IN IF hits = {}
       THEN f.provider = Null /\ f.key = Null
       ELSE /\ f.provider = reg[Least(hits)].service
            /\ f.key = RegexExec(reg[Least(hits)].regex, f.url)[2]

C8_Witness ==
  \E f \in inflight :
    /\ f.url = UrlBoth
    /\ Cardinality(Hits(Registry(variant), f.url)) = 2
    /\ f.provider = "youtube"
    /\ f.key = "dQw4w9WgXcQ"

\* C9: save() returns the caption shown in the document's caption region,
\* the other fields as the block's data hold them, and nothing else
C9_SaveReturnsShownCaption ==
  lastOp.op = "save"
  => /\ DOMAIN lastOp.ret = Fields
     /\ \A k \in Fields \ {"caption"} : lastOp.ret[k] = _data[k]
     /\ (mounted # 0 /\ nodes[mounted].kind = "embed")
        => lastOp.ret.caption = nodes[mounted].caption

\* a step in which the host calls render() right after another render()
RenderAgain ==
  /\ lastOp.op = "render"
  /\ lastOp'.op = "render"
  /\ mounted' # mounted

\* C10 as stated: the second of two render() calls in a row returns a root
\* equal in structure to the first and leaves the block's data unchanged
C10_RenderIdempotentData ==
  [][RenderAgain
     => /\ nodes'[lastOp'.out] = nodes[lastOp.out]
        /\ _data' = _data]_vars

\* C10 as amended: the second of two render() calls in a row returns a root
\* equal in structure to the first and leaves html, key, provider and url
\* unchanged; the caption of the data is unchanged or replaced by the markup
\* serialisation of itself that the first root shows
C10_RenderIdempotent ==
  [][RenderAgain
     => /\ nodes'[lastOp'.out] = nodes[lastOp.out]
        /\ \A k \in Fields \ {"caption"} : _data'[k] = _data[k]
        /\ _data'.caption \in {_data.caption, InnerHTML(_data.caption)}
        /\ _data'.caption \in {_data.caption, nodes[lastOp.out].caption}]_vars

C10_Witness ==
  /\ variant = 1
  /\ lastOp.op = "render"
  /\ lastOp.again
  /\ _data.caption = InnerHTML(CaptionRaw)
  /\ nodes[mounted].caption = InnerHTML(CaptionRaw)

\* C11: an operation handed data that is not an object throws, and only such
\* an operation throws to the host
C11_OnlyNonObjectThrows ==
  /\ lastOp.arg \notin {"", "object"} => lastOp.threw
  /\ lastOp.threw => lastOp.arg \notin {"", "object"}

\* C12: whatever configuration prepare was given, pasteConfig hands the host a
\* patterns map whose entries are exactly the providers onPaste goes through,
\* each under the provider's key with the provider's pattern
C12_PatternsPerProvider ==
  \A config \in Configs :
    LET p == PasteConfig(variant, Statics(variant, config)).patterns
        reg == Registry(variant)
    IN /\ ~p.isUndefined
       /\ p.entries = {Entry(reg[i].service, reg[i].regex) : i \in 1..Len(reg)}

\* C13: validate, called with the object save() returns, does not throw and
\* returns true exactly when the url and the html of that object are both
\* non-empty
C13_ValidateContract ==
  LET data == SaveReturn(SaveData(_data, element, nodes))
      r == Validate(variant, data)
  IN /\ ~r.threw
     /\ r.ret <=> (data.url # "" /\ data.html # "")

\* C14: a step issues one new request when it is an onPaste or a submission
\* of a non-empty URL, and none otherwise (the resolution of a request, failed
\* or not, issues none); the count of issued requests grows with it
C14_OneRequestPerEvent ==
  [][LET new == inflight' \ inflight
         accepted == \/ lastOp'.op = "paste"
                     \/ lastOp'.op = "submit" /\ lastOp'.url # ""
     IN /\ Cardinality(new) = IF accepted THEN 1 ELSE 0
        /\ issued' = issued + Cardinality(new)]_vars

C14_Witness ==
  /\ lastOp.op = "resolve"
  /\ Failed(lastOp.resp)
  /\ issued = MaxFetches
  /\ inflight = {}

\* C15: the resolution of a request answered with a status outside 200..299
\* leaves the block's data as they were, whatever the body holds
C15_Non2xxNotCommitted ==
  [][(lastOp'.op = "resolve" /\ lastOp'.resp.status \notin 200..299)
     => _data' = _data]_vars

\* C16: in every state exactly one of these holds: the block's html is
\* non-empty, or a request of the block is pending (the data of the code have
\* no embed URL of a local template, so that case never holds)
C16_OneRenderableState ==
  (_data.html # "") <=> (inflight = {})

\* the block a host builds from a stored object, before any render()
Restored(saved) ==
  Constructor(variant, [typeof |-> "object"] @@ saved, [n \in NodeIds |-> Free])

\* C17: a new block constructed from the object save() has just returned
\* returns, from its own save(), an object equal to it in all five fields
C17_SaveRoundTrip ==
  lastOp.op = "save"
  => /\ ~Restored(lastOp.ret).threw
     /\ SaveReturn(SaveData(Restored(lastOp.ret).data, 0, nodes)) = lastOp.ret

C17_Witness ==
  /\ lastOp.op = "save"
  /\ lastOp.ret.caption = CaptionTyped
  /\ lastOp.ret.html = HtmlB
  /\ lastOp.ret.url = UrlBoth
  /\ Restored(lastOp.ret).data = _data

\* C18: the resolution of a request that was rejected, whose body does not
\* parse, or whose payload has no html leaves the block's data, this.element
\* and the root in the document as they were
C18_FailedFetchChangesNothing ==
  [][(lastOp'.op = "resolve" /\ ~HasHtml(lastOp'.resp))
     => /\ _data' = _data
        /\ element' = element
        /\ mounted' = mounted]_vars

\* C19: whenever this.element is not null it is the root that sits in the
\* document
C19_ElementIsMounted ==
  element # 0 => element = mounted

\* C20: when the request of a submission made in the form in the document is
\* rejected or answered without html, the form stays in the document and
\* shows an error message afterwards
C20_FailedSubmitShowsError ==
  [][\A f \in inflight :
       (/\ f \notin inflight'
        /\ f.origin = "submit"
        /\ ~HasHtml(lastOp'.resp)
        /\ mounted = f.container)
       => /\ mounted' = mounted
          /\ nodes'[mounted'].kind = "form"
          /\ nodes'[mounted'].error # ErrNone]_vars

====
